---- MODULE Spec2Model ----
(***************************************************************************)
(* Turn-resolution engine of the insurance market simulation.              *)
(*                                                                         *)
(* The repository holds several generations of the engine.  Three of them  *)
(* are modelled, each under its own specification over the same variables: *)
(*                                                                         *)
(*   Spec       game_logic.py : GameState with its own Asset class, the    *)
(*              player company only (unlock_state, buy_asset, sell_asset,  *)
(*              update).  Money is counted in whole dollars.               *)
(*   SpecAsset  asset.py : Asset with net_trades and the price floor,      *)
(*              traded through InvestmentScreen.handle_event.  Money is    *)
(*              counted in cents (the floor 0.01 is one cent).             *)
(*   SpecState  state/game_state.py : GameState with three AICompetitors,  *)
(*              driven by GameService.end_turn.                            *)
(*                                                                         *)
(* Floats are modelled by integers: a fraction is a per-mille integer and  *)
(* a float result is truncated to the money unit.  Random draws (uniform,  *)
(* normal, Poisson, log-normal) are nondeterministic choices from small    *)
(* sets.                                                                   *)
(***************************************************************************)
EXTENDS Integers, Sequences, FiniteSets, TLC

VARIABLES
    current_turn,        \* GameState.current_turn
    cash,                \* company -> Company.cash
    investments,         \* asset id -> shares held by the player company
    policies_sold,       \* company -> line -> Company.policies_sold
    premium_rates,       \* company -> line -> Company.premium_rates (NoRate: key absent)
    advertising_budget,  \* company -> line -> Company.advertising_budget
    claims_history,      \* company -> sequence of claim records
    unlocked_states,     \* state id -> GameState.unlocked_states
    current_demand,      \* line -> MarketSegment.current_demand
    current_price,       \* asset id -> Asset.current_price
    net_trades,          \* asset id -> Asset.net_trades
    price_history,       \* asset id -> Asset.price_history
    financial_history,   \* GameState.financial_history
    alloc_turn,          \* company -> line -> turn in which policies_sold was last written (history variable)
    traded,              \* asset id -> signed shares traded since the last price update (history variable)
    before,              \* player cash and holdings on entry to the last trade, and the call before it (history variable)
    consumers,           \* consumer index -> Consumer.current_provider, Consumer.satisfaction
    economic_cycle_phase, \* MarketService._economic_cycle_phase, radians in fixed point
    in_startup,          \* GameUI.in_startup
    showing_turn_summary, \* GameUI.showing_turn_summary
    current_screen,      \* GameUI.current_screen
    screens,             \* ScreenManager.screens: the names registered
    active_screen,       \* ScreenManager.active_screen
    screen_history,      \* ScreenManager.screen_history
    ops,                 \* number of player operations performed (bounded by MaxOps)
    last_call            \* the operation performed by the last step and what it returned

vars == <<current_turn, cash, investments, policies_sold, premium_rates,
          advertising_budget, claims_history, unlocked_states, current_demand,
          current_price, net_trades, price_history, financial_history,
          alloc_turn, traded, before, consumers, economic_cycle_phase,
          in_startup, showing_turn_summary, current_screen,
          screens, active_screen, screen_history, ops, last_call>>

\* the state of GameUI and of ScreenManager
ui_vars == <<in_startup, showing_turn_summary, current_screen>>
screen_vars == <<screens, active_screen, screen_history>>

\* the state of the market components and of the user interface, which the
\* game operations leave alone
other_vars == <<consumers, economic_cycle_phase, ui_vars, screen_vars>>

-----------------------------------------------------------------------------
(* Bounds of the model *)

MaxTurn == 2
MaxOps == 3

-----------------------------------------------------------------------------
(* Identifiers *)

Player == "player"
AINames == {"aggressive", "balanced", "conservative"}
Companies == {Player} \cup AINames

States == {"CA", "FL"}
UnknownState == "TX"
Lines == {"CA_home", "CA_auto", "FL_home", "FL_auto"}
LineOrder == <<"CA_home", "CA_auto", "FL_home", "FL_auto">>

StateOf(l) == IF l \in {"CA_home", "CA_auto"} THEN "CA" ELSE "FL"
IsHome(l) == l \in {"CA_home", "FL_home"}

Assets == {"SP500", "CORP_BONDS", "LONG_TREASURY", "SHORT_TREASURY", "REIT"}
AssetOrder == <<"SP500", "CORP_BONDS", "LONG_TREASURY", "SHORT_TREASURY", "REIT">>
UnknownAsset == "GOLD"

NoRate == 0

\* ScreenManager.active_screen when no screen is active (None)
NoScreen == "None"

\* market_dynamics.py: the consumers of one market segment, as
\* _generate_consumers creates them (current_provider None, satisfaction 0.5)
NumConsumers == 3
NoProvider == "None"
NewConsumers ==
    [i \in 1..NumConsumers |-> [current_provider |-> NoProvider, satisfaction |-> 500]]

Min(a, b) == IF a < b THEN a ELSE b
Max(a, b) == IF a > b THEN a ELSE b
Abs(a) == IF a < 0 THEN -a ELSE a

RECURSIVE SumOver(_, _)
SumOver(f, S) ==
    IF S = {} THEN 0
    ELSE LET x == CHOOSE y \in S : TRUE IN f[x] + SumOver(f, S \ {x})

-----------------------------------------------------------------------------
(* game_logic.py: static tables built by GameState.__init__ *)

\* catastrophe_risk in per mille per year; cat_amount is exp(cat_severity)
states ==
    [s \in States |->
        IF s = "CA"
        THEN [catastrophe_risk |-> 10, cat_amount |-> 500000,
              market_size_multiplier |-> 1500, entry_cost |-> 500000]
        ELSE [catastrophe_risk |-> 50, cat_amount |-> 250000,
              market_size_multiplier |-> 1000, entry_cost |-> 300000]]

\* base_risk and price_sensitivity in per mille
market_segments ==
    [l \in Lines |->
        IF IsHome(l)
        THEN [base_risk |-> 50, price_sensitivity |-> 1200,
              market_size |-> (2000 * states[StateOf(l)].market_size_multiplier) \div 1000,
              initial_demand |-> (1500 * states[StateOf(l)].market_size_multiplier) \div 1000]
        ELSE [base_risk |-> 150, price_sensitivity |-> 1500,
              market_size |-> (5000 * states[StateOf(l)].market_size_multiplier) \div 1000,
              initial_demand |-> (4000 * states[StateOf(l)].market_size_multiplier) \div 1000]]

base_market_rates ==
    [l \in Lines |->
        IF IsHome(l)
        THEN 1200 + (states[StateOf(l)].catastrophe_risk * states[StateOf(l)].cat_amount) \div 1000
        ELSE 900]

\* exp(mean) of the log-normal claim size: the representative claim amount
claim_distributions ==
    [l \in Lines |->
        IF IsHome(l)
        THEN [amount |-> 24000, cat_amount |-> states[StateOf(l)].cat_amount]
        ELSE [amount |-> 6000, cat_amount |-> 0]]

\* current_price in dollars, dividend_yield in per mille per year
investment_assets ==
    [a \in Assets |->
        CASE a = "SP500"          -> [current_price |-> 450, dividend_yield |-> 15]
          [] a = "CORP_BONDS"     -> [current_price |-> 100, dividend_yield |-> 45]
          [] a = "LONG_TREASURY"  -> [current_price |-> 90,  dividend_yield |-> 35]
          [] a = "SHORT_TREASURY" -> [current_price |-> 50,  dividend_yield |-> 20]
          [] OTHER                -> [current_price |-> 80,  dividend_yield |-> 60]]

StartingCash == 1000000
OperatingExpenses == 50000

-----------------------------------------------------------------------------
(* Inputs the model draws *)

\* (asset id, share count) pairs handed to buy_asset / sell_asset
Trades == {<<"CORP_BONDS", -10>>, <<"CORP_BONDS", 8000>>, <<UnknownAsset, 8000>>}
StateIds == {"FL", UnknownState}
\* the slider moved on the premium screen, and its positions in per mille of
\* the base rate
RateLines == {"CA_home"}
RateFactors == {800, 2000}

\* the random draws of one end-of-turn update
\*   variation : np.random.uniform(0.9, 1.1), per mille
\*   effect    : total_effect of _update_market_demand, per mille
\*   claims    : Poisson claim count of a line that has policies
\*   cat       : whether np.random.random() < cat_risk
\*   shock     : random_return of Asset.update_price, per mille
Draw(v, e, n, c, s) == [variation |-> v, effect |-> e, claims |-> n, cat |-> c, shock |-> s]
Draws == {Draw(900, 700, 0, FALSE, 50), Draw(1100, 1400, 2, TRUE, -100)}

Call(op, arg, shares, ret) == [op |-> op, arg |-> arg, shares |-> shares, ret |-> ret]
NoCall == Call("", "", 0, FALSE)
NoTrade == [cash |-> 0, investments |-> [a \in Assets |-> 0], call |-> NoCall]
Snapshot == [cash |-> cash[Player], investments |-> investments, call |-> last_call]

-----------------------------------------------------------------------------
(* models.py / data/models/market_segment.py: MarketSegment.calculate_demand *)

\* fixed point: FP stands for 1.0
FP == 10000
ExpTerms == 10

\* np.exp by its power series, in fixed point
RECURSIVE ExpTerm(_, _)
ExpTerm(x, k) == IF k = 0 THEN FP ELSE (ExpTerm(x, k - 1) * x) \div (k * FP)

RECURSIVE ExpSum(_, _)
ExpSum(x, k) == IF k = 0 THEN ExpTerm(x, 0) ELSE ExpTerm(x, k) + ExpSum(x, k - 1)

Exp(x) == ExpSum(x, ExpTerms)

RECURSIVE SeqSum(_)
SeqSum(s) == IF s = <<>> THEN 0 ELSE Head(s) + SeqSum(Tail(s))

\* premium / np.mean(competitor_premiums), in fixed point
RelativePrice(premium, competitor_premiums) ==
    IF competitor_premiums = <<>> THEN FP
    ELSE (premium * Len(competitor_premiums) * FP) \div SeqSum(competitor_premiums)

calculate_demand(price_sensitivity, market_size, demand, premium, competitor_premiums) ==
    LET relative_price == RelativePrice(premium, competitor_premiums)
        demand_factor == Exp(-((price_sensitivity * (relative_price - FP)) \div 1000))
    IN  Min(market_size, (demand * demand_factor) \div FP)

-----------------------------------------------------------------------------
(* game_logic.py: GameState *)

\* premium_rates.get(line_id, base_market_rates[line_id])
RateOf(c, l) == IF premium_rates[c][l] = NoRate THEN base_market_rates[l] ELSE premium_rates[c][l]

\* _update_policies: the player's new policy counts
NewPolicies(d) ==
    [l \in Lines |->
        IF unlocked_states[StateOf(l)]
        THEN LET potential_policies ==
                     calculate_demand(market_segments[l].price_sensitivity,
                                      market_segments[l].market_size,
                                      current_demand[l],
                                      RateOf(Player, l), <<base_market_rates[l]>>)
             IN  (potential_policies * d.variation) \div 1000
        ELSE 0]

\* quarterly premium revenue of company c on the policy counts pol
PremiumRevenue(c, pol) ==
    SumOver([l \in Lines |-> RateOf(c, l) * pol[l]], Lines) \div 4

\* int(policies * affected_ratio) with affected_ratio = 0.1
AffectedPolicies(policies) == policies \div 10

\* _generate_claims: whether a catastrophe strikes line l, "_home" lines only
\* and only when np.random.random() < cat_risk
CatastropheHits_anyline(l, d) == d.cat

CatastropheHits(l, d) == IsHome(l) /\ d.cat

\* the claims one line produces in one turn, as aggregated claim records
RECURSIVE LineClaims(_, _, _, _)
LineClaims(order, pol, d, turn) ==
    IF order = <<>> THEN <<>>
    ELSE LET l == Head(order)
             n == IF pol[l] > 0 THEN d.claims ELSE 0
             regular == IF n > 0
                        THEN <<[line |-> l, amount |-> n * claim_distributions[l].amount,
                                count |-> n, turn |-> turn, type |-> "regular"]>>
                        ELSE <<>>
             k == IF CatastropheHits(l, d) THEN AffectedPolicies(pol[l]) ELSE 0
             catastrophe == IF k > 0
                            THEN <<[line |-> l, amount |-> k * claim_distributions[l].cat_amount,
                                    count |-> k, turn |-> turn, type |-> "catastrophe"]>>
                            ELSE <<>>
         IN  regular \o catastrophe \o LineClaims(Tail(order), pol, d, turn)

RECURSIVE ClaimsTotal(_)
ClaimsTotal(claims) == IF claims = <<>> THEN 0 ELSE Head(claims).amount + ClaimsTotal(Tail(claims))

\* sum of the claims of claims_history that carry the given turn
RECURSIVE ClaimsOfTurn(_, _)
ClaimsOfTurn(claims, turn) ==
    IF claims = <<>> THEN 0
    ELSE (IF Head(claims).turn = turn THEN Head(claims).amount ELSE 0)
         + ClaimsOfTurn(Tail(claims), turn)

\* _update_market_demand: max(0, min(market_size, int(current_demand * total_effect)))
NewDemand(d) ==
    [l \in Lines |->
        Max(0, Min(market_segments[l].market_size, (current_demand[l] * d.effect) \div 1000))]

\* game_logic.py Asset.get_quarterly_income
get_quarterly_income(a, price, shares) ==
    (investment_assets[a].dividend_yield * price * shares) \div 4000

\* game_logic.py Asset.update_price: current_price *= (1 + random_return)
update_price(price, shock) == (price * (1000 + shock)) \div 1000

\* _calculate_investment_returns on the prices and histories given:
\* income is taken at the old price, then the price of every held asset moves
InvestmentReturns(prices, hist, d) ==
    LET held == {a \in Assets : investments[a] > 0}
        newp == [a \in Assets |-> IF a \in held THEN update_price(prices[a], d.shock) ELSE prices[a]]
    IN  [total_income |-> SumOver([a \in Assets |->
                              IF a \in held THEN get_quarterly_income(a, prices[a], investments[a]) ELSE 0],
                              Assets),
         unrealized_gains |-> SumOver([a \in Assets |->
                              IF a \in held THEN (newp[a] - prices[a]) * investments[a] ELSE 0],
                              Assets),
         prices |-> newp,
         hist |-> [a \in Assets |-> IF a \in held THEN Append(hist[a], newp[a]) ELSE hist[a]]]

\* _generate_financial_report calls _calculate_investment_returns itself
ReportReturns(first, d) == InvestmentReturns(first.prices, first.hist, d)

\* the cash the two calls of _calculate_investment_returns credit
CreditedIncome(first, second) == first.total_income + second.total_income

Init ==
    /\ current_turn = 0
    /\ cash = [c \in Companies |-> StartingCash]
    /\ investments = [a \in Assets |-> 0]
    /\ policies_sold = [c \in Companies |-> [l \in Lines |-> 0]]
    /\ premium_rates = [c \in Companies |-> [l \in Lines |-> NoRate]]
    /\ advertising_budget = [c \in Companies |-> [l \in Lines |-> 0]]
    /\ claims_history = [c \in Companies |-> <<>>]
    /\ unlocked_states = [s \in States |-> s = "CA"]
    /\ current_demand = [l \in Lines |-> market_segments[l].initial_demand]
    /\ current_price = [a \in Assets |-> investment_assets[a].current_price]
    /\ net_trades = [a \in Assets |-> 0]
    /\ price_history = [a \in Assets |-> <<investment_assets[a].current_price>>]
    /\ financial_history = <<>>
    /\ alloc_turn = [c \in Companies |-> [l \in Lines |-> -1]]
    /\ traded = [a \in Assets |-> 0]
    /\ consumers = NewConsumers
    /\ economic_cycle_phase = 0
    /\ in_startup = FALSE
    /\ showing_turn_summary = FALSE
    /\ current_screen = "market_overview"
    /\ screens = {}
    /\ active_screen = NoScreen
    /\ screen_history = <<>>
    /\ before = NoTrade
    /\ ops = 0
    /\ last_call = Call("new_game", "", 0, TRUE)

\* unlock_state: "state_id not in self.states or self.unlocked_states[state_id]"
UnlockRejected_recharge(state_id) == state_id \notin States

UnlockRejected(state_id) == state_id \notin States \/ unlocked_states[state_id]

\* unlock_state: "self.player_company.cash -= entry_cost"
EntryCharge_free(state_id) == 0

EntryCharge(state_id) == states[state_id].entry_cost

\* buy_asset: "cost > self.player_company.cash"
InsufficientFunds_unchecked(cost) == FALSE

InsufficientFunds(cost) == cost > cash[Player]

\* sell_asset: "proceeds = asset.current_price * shares"
Proceeds(asset_name, shares) == current_price[asset_name] * shares

unlock_state(state_id) ==
    /\ ops < MaxOps
    /\ ops' = ops + 1
    /\ UNCHANGED other_vars
    /\ before' = NoTrade
    /\ IF UnlockRejected(state_id)
       THEN /\ last_call' = Call("unlock_state", state_id, 0, FALSE)
            /\ UNCHANGED <<cash, unlocked_states>>
       ELSE IF cash[Player] >= states[state_id].entry_cost
            THEN /\ cash' = [cash EXCEPT ![Player] = @ - EntryCharge(state_id)]
                 /\ unlocked_states' = [unlocked_states EXCEPT ![state_id] = TRUE]
                 /\ last_call' = Call("unlock_state", state_id, 0, TRUE)
            ELSE /\ last_call' = Call("unlock_state", state_id, 0, FALSE)
                 /\ UNCHANGED <<cash, unlocked_states>>
    /\ UNCHANGED <<current_turn, investments, policies_sold, premium_rates,
                   advertising_budget, claims_history, current_demand, current_price,
                   net_trades, price_history, financial_history, alloc_turn, traded>>

buy_asset(asset_name, shares) ==
    /\ ops < MaxOps
    /\ ops' = ops + 1
    /\ UNCHANGED other_vars
    /\ before' = Snapshot
    /\ IF asset_name \notin Assets
       THEN /\ last_call' = Call("buy_asset", asset_name, shares, FALSE)
            /\ UNCHANGED <<cash, investments>>
       ELSE LET cost == current_price[asset_name] * shares IN
            IF InsufficientFunds(cost)
            THEN /\ last_call' = Call("buy_asset", asset_name, shares, FALSE)
                 /\ UNCHANGED <<cash, investments>>
            ELSE /\ cash' = [cash EXCEPT ![Player] = @ - cost]
                 /\ investments' = [investments EXCEPT ![asset_name] = @ + shares]
                 /\ last_call' = Call("buy_asset", asset_name, shares, TRUE)
    /\ UNCHANGED <<current_turn, policies_sold, premium_rates, advertising_budget,
                   claims_history, unlocked_states, current_demand, current_price,
                   net_trades, price_history, financial_history, alloc_turn, traded>>

sell_asset(asset_name, shares) ==
    /\ ops < MaxOps
    /\ ops' = ops + 1
    /\ UNCHANGED other_vars
    /\ before' = Snapshot
    /\ IF asset_name \notin Assets
       THEN /\ last_call' = Call("sell_asset", asset_name, shares, FALSE)
            /\ UNCHANGED <<cash, investments>>
       ELSE IF shares > investments[asset_name]
            THEN /\ last_call' = Call("sell_asset", asset_name, shares, FALSE)
                 /\ UNCHANGED <<cash, investments>>
            ELSE /\ cash' = [cash EXCEPT ![Player] = @ + Proceeds(asset_name, shares)]
                 /\ investments' = [investments EXCEPT ![asset_name] = @ - shares]
                 /\ last_call' = Call("sell_asset", asset_name, shares, TRUE)
    /\ UNCHANGED <<current_turn, policies_sold, premium_rates, advertising_budget,
                   claims_history, unlocked_states, current_demand, current_price,
                   net_trades, price_history, financial_history, alloc_turn, traded>>

\* the premium slider: premium_rates[line_id] = base_rate * slider value
set_premium_rate(line_id, factor) ==
    /\ ops < MaxOps
    /\ ops' = ops + 1
    /\ UNCHANGED other_vars
    /\ before' = NoTrade
    /\ unlocked_states[StateOf(line_id)]
    /\ premium_rates' = [premium_rates EXCEPT
                            ![Player][line_id] = (base_market_rates[line_id] * factor) \div 1000]
    /\ last_call' = Call("set_premium_rate", line_id, 0, TRUE)
    /\ UNCHANGED <<current_turn, cash, investments, policies_sold, advertising_budget,
                   claims_history, unlocked_states, current_demand, current_price,
                   net_trades, price_history, financial_history, alloc_turn, traded>>

\* GameState.update: _update_policies, _generate_claims, _update_market_demand,
\* _calculate_investment_returns, _generate_financial_report, current_turn += 1
GameState_update(d) ==
    /\ current_turn < MaxTurn
    /\ LET new_policies == NewPolicies(d)
           premium_revenue == PremiumRevenue(Player, new_policies)
           claims == LineClaims(LineOrder, new_policies, d, current_turn)
           history == claims_history[Player] \o claims
           first == InvestmentReturns(current_price, price_history, d)
           second == ReportReturns(first, d)
           report == [period |-> current_turn,
                      revenue |-> premium_revenue,
                      claims_paid |-> ClaimsOfTurn(history, current_turn),
                      investment_returns |-> second.total_income,
                      unrealized_gains |-> second.unrealized_gains,
                      operating_expenses |-> OperatingExpenses]
       IN  /\ policies_sold' = [policies_sold EXCEPT ![Player] = new_policies]
           /\ alloc_turn' = [alloc_turn EXCEPT ![Player] = [l \in Lines |-> current_turn]]
           /\ cash' = [cash EXCEPT ![Player] =
                          @ + premium_revenue - ClaimsTotal(claims) + CreditedIncome(first, second)]
           /\ claims_history' = [claims_history EXCEPT ![Player] = history]
           /\ current_demand' = NewDemand(d)
           /\ current_price' = second.prices
           /\ price_history' = second.hist
           /\ financial_history' = Append(financial_history, report)
    /\ current_turn' = current_turn + 1
    /\ last_call' = Call("update", "", 0, TRUE)
    /\ before' = NoTrade
    /\ UNCHANGED <<investments, premium_rates, advertising_budget, unlocked_states,
                   net_trades, traded, ops>>

\* GameState.update, called on its own
update(d) ==
    /\ GameState_update(d)
    /\ UNCHANGED other_vars

Next ==
    \/ \E s \in StateIds : unlock_state(s)
    \/ \E t \in Trades : buy_asset(t[1], t[2])
    \/ \E t \in Trades : sell_asset(t[1], t[2])
    \/ \E l \in RateLines, f \in RateFactors : set_premium_rate(l, f)
    \/ \E d \in Draws : update(d)

Spec == Init /\ [][Next]_vars

-----------------------------------------------------------------------------
(* Properties of game_logic.py, checked under Spec *)

IsUpdateStep == current_turn' = current_turn + 1
LastReport == financial_history[Len(financial_history)]
AdvertisingSpend(c) == SumOver(advertising_budget[c], Lines)

\* C1: one end-of-turn update changes the player's cash by exactly
\* premium_revenue - claims_paid - advertising_spend + investment_income of
\* that turn as the turn's report states them, each term once; between turns
\* a buy or a sell changes cash only when it succeeds, by its cost or proceeds.
C1_CashLedger ==
    [][ /\ IsUpdateStep =>
             cash'[Player] = cash[Player] + LastReport'.revenue - LastReport'.claims_paid
                             - AdvertisingSpend(Player) + LastReport'.investment_returns
        /\ (last_call'.op = "buy_asset" /\ ~IsUpdateStep) =>
             cash'[Player] = IF last_call'.ret
                             THEN cash[Player] - current_price[last_call'.arg] * last_call'.shares
                             ELSE cash[Player]
        /\ (last_call'.op = "sell_asset" /\ ~IsUpdateStep) =>
             cash'[Player] = IF last_call'.ret
                             THEN cash[Player] + current_price[last_call'.arg] * last_call'.shares
                             ELSE cash[Player]
      ]_vars

\* C7: buy_asset or sell_asset called with a negative share count returns
\* failure and changes neither cash nor any share holding.
C7_NegativeSharesRejected ==
    [][ (last_call'.op \in {"buy_asset", "sell_asset"} /\ last_call'.shares < 0) =>
            (~last_call'.ret /\ cash' = cash /\ investments' = investments) ]_vars

\* C8: buy_asset with cost > cash, sell_asset with more shares than held, and
\* either with an unknown asset id, return failure and leave cash, every
\* share holding and every asset price unchanged.
C8_RejectedTradeNoChange ==
    [][ ( \/ /\ last_call'.op = "buy_asset"
              /\ \/ last_call'.arg \notin Assets
                 \/ current_price[last_call'.arg] * last_call'.shares > cash[Player]
          \/ /\ last_call'.op = "sell_asset"
              /\ \/ last_call'.arg \notin Assets
                 \/ last_call'.shares > investments[last_call'.arg] )
        => (~last_call'.ret /\ cash' = cash /\ investments' = investments
            /\ current_price' = current_price) ]_vars

\* a buy of a known asset has just been refused for lack of funds
C8_Witness ==
    /\ last_call.op = "buy_asset"
    /\ last_call.arg \in Assets
    /\ ~last_call.ret
    /\ current_price[last_call.arg] * last_call.shares > cash[Player]

\* C9: when buy_asset(a, n) has succeeded and the next call is sell_asset(a, n),
\* with no price update in between, the sell succeeds and cash and every share
\* count are back at their values before the buy.
C9_BuySellRoundTrip ==
    [][ ( /\ last_call.op = "buy_asset" /\ last_call.ret
          /\ last_call'.op = "sell_asset"
          /\ last_call'.arg = last_call.arg
          /\ last_call'.shares = last_call.shares )
        => (last_call'.ret /\ cash'[Player] = before.cash
            /\ investments' = before.investments) ]_vars

\* C10: unlock_state on a state that is already unlocked, on an unknown state,
\* or with cash below entry_cost returns failure and leaves cash and every
\* unlocked flag unchanged, so a second call never charges entry_cost again.
C10_UnlockChargesOnce ==
    [][ ( /\ last_call'.op = "unlock_state"
          /\ \/ last_call'.arg \notin States
             \/ unlocked_states[last_call'.arg]
             \/ cash[Player] < states[last_call'.arg].entry_cost )
        => (~last_call'.ret /\ cash' = cash /\ unlocked_states' = unlocked_states) ]_vars

\* FL was unlocked by a first call, which charged its entry cost once, and a
\* second call on FL has just been refused
C10_Witness ==
    /\ last_call = Call("unlock_state", "FL", 0, FALSE)
    /\ unlocked_states["FL"] /\ unlocked_states["CA"]
    /\ current_turn = 0
    /\ cash[Player] = StartingCash - states["FL"].entry_cost

-----------------------------------------------------------------------------
(* asset.py: Asset, traded from ui/screens/investment_screen.py.            *)
(* Under SpecAsset money is counted in cents.                               *)

PriceFloor == 1            \* max(0.01, ...)
QuarterlyDrift == 5        \* 0.02 / 4, per mille
PressureCap == 20          \* np.clip(net_trades / 1000, -0.02, 0.02), per mille

\* assets the investment screen shows buttons for, and the share counts typed
ScreenAssets == {"CORP_BONDS"}
ScreenShares == {-10, 0, 8000}
\* np.random.normal(0, volatility / 2), per mille
Shocks == {-2000, -100, 50}
\* share counts handed to record_trade
RecordedShares == {-50, 5}
\* prices an Asset is constructed with, in cents
InitialPrices == {100, 10000}

Clip(x, lo, hi) == Min(Max(x, lo), hi)

\* Asset.update_price: the new current_price
NewPrice_nofloor(price, trades, random_shock) ==
    LET market_pressure == Clip(trades, -PressureCap, PressureCap)
    IN  price + (price * (8 * (QuarterlyDrift + random_shock) + 2 * market_pressure)) \div 10000

NewPrice(price, trades, random_shock) ==
    LET market_pressure == Clip(trades, -PressureCap, PressureCap)
        total_change == (price * (8 * (QuarterlyDrift + random_shock) + 2 * market_pressure)) \div 10000
    IN  Max(PriceFloor, price + total_change)

InitAsset ==
    /\ current_turn = 0
    /\ cash = [c \in Companies |-> StartingCash * 100]
    /\ investments = [a \in Assets |-> 0]
    /\ policies_sold = [c \in Companies |-> [l \in Lines |-> 0]]
    /\ premium_rates = [c \in Companies |-> [l \in Lines |-> NoRate]]
    /\ advertising_budget = [c \in Companies |-> [l \in Lines |-> 0]]
    /\ claims_history = [c \in Companies |-> <<>>]
    /\ unlocked_states = [s \in States |-> s = "CA"]
    /\ current_demand = [l \in Lines |-> market_segments[l].initial_demand]
    /\ \E p \in InitialPrices :
          /\ current_price = [a \in Assets |-> p]
          /\ price_history = [a \in Assets |-> <<p>>]
    /\ net_trades = [a \in Assets |-> 0]
    /\ financial_history = <<>>
    /\ alloc_turn = [c \in Companies |-> [l \in Lines |-> -1]]
    /\ traded = [a \in Assets |-> 0]
    /\ consumers = NewConsumers
    /\ economic_cycle_phase = 0
    /\ in_startup = FALSE
    /\ showing_turn_summary = FALSE
    /\ current_screen = "market_overview"
    /\ screens = {}
    /\ active_screen = NoScreen
    /\ screen_history = <<>>
    /\ before = NoTrade
    /\ ops = 0
    /\ last_call = Call("new_game", "", 0, TRUE)

\* what SpecAsset never touches
AssetFrame ==
    UNCHANGED <<current_turn, policies_sold, premium_rates, advertising_budget,
                claims_history, unlocked_states, current_demand, financial_history,
                alloc_turn, before>>

\* Asset.update_price: net_trades after the update
ResetTrades_kept(trades) == trades

ResetTrades(trades) == 0

Asset_update_price(a, random_shock) ==
    /\ Len(price_history[a]) <= MaxTurn
    /\ UNCHANGED other_vars
    /\ LET p == NewPrice(current_price[a], net_trades[a], random_shock)
       IN  /\ current_price' = [current_price EXCEPT ![a] = p]
           /\ price_history' = [price_history EXCEPT ![a] = Append(@, p)]
    /\ net_trades' = [net_trades EXCEPT ![a] = ResetTrades(@)]
    /\ traded' = [traded EXCEPT ![a] = 0]
    /\ last_call' = Call("update_price", a, net_trades[a], TRUE)
    /\ UNCHANGED <<cash, investments, ops>>
    /\ AssetFrame

Asset_record_trade(a, shares) ==
    /\ ops < MaxOps
    /\ ops' = ops + 1
    /\ UNCHANGED other_vars
    /\ net_trades' = [net_trades EXCEPT ![a] = @ + shares]
    /\ last_call' = Call("record_trade", a, shares, TRUE)
    /\ UNCHANGED <<cash, investments, current_price, price_history, traded>>
    /\ AssetFrame

\* InvestmentScreen.handle_event, a click on the buy button of asset_id
InvestmentScreen_buy(asset_id, shares) ==
    /\ ops < MaxOps
    /\ ops' = ops + 1
    /\ UNCHANGED other_vars
    /\ IF shares <= 0
       THEN /\ last_call' = Call("screen_buy", asset_id, shares, FALSE)
            /\ UNCHANGED <<cash, investments, traded>>
       ELSE LET cost == current_price[asset_id] * shares IN
            IF cost <= cash[Player]
            THEN /\ cash' = [cash EXCEPT ![Player] = @ - cost]
                 /\ investments' = [investments EXCEPT ![asset_id] = @ + shares]
                 /\ traded' = [traded EXCEPT ![asset_id] = @ + shares]
                 /\ last_call' = Call("screen_buy", asset_id, shares, TRUE)
            ELSE /\ last_call' = Call("screen_buy", asset_id, shares, FALSE)
                 /\ UNCHANGED <<cash, investments, traded>>
    /\ UNCHANGED <<current_price, price_history, net_trades>>
    /\ AssetFrame

\* InvestmentScreen.handle_event, a click on the sell button of asset_id
InvestmentScreen_sell(asset_id, shares) ==
    /\ ops < MaxOps
    /\ ops' = ops + 1
    /\ UNCHANGED other_vars
    /\ IF shares <= 0
       THEN /\ last_call' = Call("screen_sell", asset_id, shares, FALSE)
            /\ UNCHANGED <<cash, investments, traded>>
       ELSE IF investments[asset_id] >= shares
            THEN /\ cash' = [cash EXCEPT ![Player] = @ + current_price[asset_id] * shares]
                 /\ investments' = [investments EXCEPT ![asset_id] = @ - shares]
                 /\ traded' = [traded EXCEPT ![asset_id] = @ - shares]
                 /\ last_call' = Call("screen_sell", asset_id, shares, TRUE)
            ELSE /\ last_call' = Call("screen_sell", asset_id, shares, FALSE)
                 /\ UNCHANGED <<cash, investments, traded>>
    /\ UNCHANGED <<current_price, price_history, net_trades>>
    /\ AssetFrame

NextAsset ==
    \/ \E a \in ScreenAssets, x \in Shocks : Asset_update_price(a, x)
    \/ \E a \in ScreenAssets, n \in RecordedShares : Asset_record_trade(a, n)
    \/ \E a \in ScreenAssets, n \in ScreenShares : InvestmentScreen_buy(a, n)
    \/ \E a \in ScreenAssets, n \in ScreenShares : InvestmentScreen_sell(a, n)

SpecAsset == InitAsset /\ [][NextAsset]_vars

-----------------------------------------------------------------------------
(* Properties of asset.py, checked under SpecAsset *)

C6_TradesRecorded ==
    [][ /\ (last_call'.op = "screen_buy" /\ last_call'.ret) =>
              net_trades'[last_call'.arg] = net_trades[last_call'.arg] + last_call'.shares
        /\ (last_call'.op = "screen_sell" /\ last_call'.ret) =>
              net_trades'[last_call'.arg] = net_trades[last_call'.arg] - last_call'.shares
      ]_vars

-----------------------------------------------------------------------------
(* state/game_state.py: GameState with AI competitors, driven by           *)
(* services/game_service.py: GameService.end_turn.                         *)
(*                                                                         *)
(* GameState.__init__ leaves the market tables to its caller; the tables   *)
(* of game_logic.py, which are those of market_dynamics.py, are used.      *)
(* AICompetitor reads them through game_state.market.  Money is counted in *)
(* whole dollars.                                                          *)

CompetitorOrder == <<"aggressive", "balanced", "conservative">>

\* AICompetitor.__init__: target share and price sensitivity in per mille,
\* advertising ratio in per cent
ai_profile ==
    [c \in AINames |->
        CASE c = "aggressive"   -> [target_market_share |-> 400, price_sensitivity |-> 1500,
                                    advertising_ratio |-> 15]
          [] c = "conservative" -> [target_market_share |-> 200, price_sensitivity |-> 800,
                                    advertising_ratio |-> 5]
          [] OTHER              -> [target_market_share |-> 300, price_sensitivity |-> 1000,
                                    advertising_ratio |-> 10]]

\* rates.get(line_id, base_market_rates[line_id])
RateIn(rates, l) == IF rates[l] = NoRate THEN base_market_rates[l] ELSE rates[l]

\* current_policies / segment.market_size < self.target_market_share
BelowTarget(c, l) ==
    IF market_segments[l].market_size > 0
    THEN policies_sold[c][l] * 1000 < ai_profile[c].target_market_share * market_segments[l].market_size
    ELSE 0 < ai_profile[c].target_market_share

\* _update_pricing: max_change = current_rate * 0.1
MaxChange_wide(current_rate) == current_rate \div 5

MaxChange(current_rate) == current_rate \div 10

\* _update_pricing: min_rate = base_rate * 0.85
min_rate_unfloored(base_rate) == 0

min_rate(base_rate) == (base_rate * 850) \div 1000

\* AICompetitor._update_pricing on the rates given
UpdatePricing(c, rates) ==
    [l \in Lines |->
        IF rates[l] = NoRate THEN base_market_rates[l]
        ELSE LET base_rate == base_market_rates[l]
                 player_rate == RateOf(Player, l)
                 wanted == IF BelowTarget(c, l)
                           THEN Min((player_rate * 950) \div 1000,
                                    (base_rate * (1000 - ai_profile[c].price_sensitivity \div 10)) \div 1000)
                           ELSE Max(base_rate, (player_rate * 1020) \div 1000)
                 target_rate == Max(wanted, min_rate(base_rate))
                 current_rate == rates[l]
                 max_change == MaxChange(current_rate)
             IN  Clip(target_rate, current_rate - max_change, current_rate + max_change)]

\* AICompetitor._update_advertising on the rates given
UpdateAdvertising(c, rates) ==
    [l \in Lines |->
        LET revenue == policies_sold[c][l] * RateIn(rates, l)
            base_budget == (revenue * ai_profile[c].advertising_ratio) \div 100
            scaled == IF BelowTarget(c, l) THEN (base_budget * 3) \div 2 ELSE (base_budget * 4) \div 5
            floored == IF revenue > 0 THEN Max(scaled, 10000) ELSE 5000
        IN  Min(floored, cash[c] \div 4)]

\* AICompetitor.make_decisions: pricing, advertising; _make_investments only
\* computes local values
MakeDecisions(c, rates) ==
    LET priced == UpdatePricing(c, rates)
    IN  [premium_rates |-> priced, advertising_budget |-> UpdateAdvertising(c, priced)]

\* the decisions of one GameService.end_turn: the loop of end_turn itself,
\* then the loop at the head of GameState.update
TurnDecisions(c) ==
    LET service == MakeDecisions(c, premium_rates[c])
    IN  MakeDecisions(c, service.premium_rates)

\* the competitors' shares of remaining_demand, in list order
RECURSIVE CompetitorShares(_, _, _, _, _)
CompetitorShares(order, l, rates, all_rates, remaining_demand) ==
    IF order = <<>> THEN <<>>
    ELSE LET competitor_demand ==
                 calculate_demand(market_segments[l].price_sensitivity,
                                  market_segments[l].market_size, current_demand[l],
                                  RateIn(rates[Head(order)], l), all_rates)
             competitor_policies == Min(competitor_demand, remaining_demand \div Len(CompetitorOrder))
         IN  <<competitor_policies>> \o
             CompetitorShares(Tail(order), l, rates, all_rates, remaining_demand - competitor_policies)

\* _update_policies for one line: the player's count, and whether and how
\* the competitors' counts are written
AllocateLine(l, rates, d) ==
    IF unlocked_states[StateOf(l)]
    THEN LET all_rates == <<base_market_rates[l], RateIn(rates[Player], l)>> \o
                          [i \in 1..Len(CompetitorOrder) |-> RateIn(rates[CompetitorOrder[i]], l)]
             potential_policies ==
                 calculate_demand(market_segments[l].price_sensitivity,
                                  market_segments[l].market_size, current_demand[l],
                                  RateIn(rates[Player], l), all_rates)
             player_policies == (potential_policies * d.variation) \div 1000
             remaining_demand == market_segments[l].market_size - player_policies
         IN  [player |-> player_policies,
              written |-> remaining_demand > 0,
              competitors |-> IF remaining_demand > 0
                              THEN CompetitorShares(CompetitorOrder, l, rates, all_rates, remaining_demand)
                              ELSE <<>>]
    ELSE [player |-> 0, written |-> TRUE, competitors |-> [i \in 1..Len(CompetitorOrder) |-> 0]]

IndexOf(c) == CHOOSE i \in 1..Len(CompetitorOrder) : CompetitorOrder[i] = c

\* quarterly premium revenue on the rates and policy counts given
Revenue(rates, pol) == SumOver([l \in Lines |-> RateIn(rates, l) * pol[l]], Lines) \div 4

InitState ==
    /\ current_turn = 0
    /\ cash = [c \in Companies |-> StartingCash]
    /\ investments = [a \in Assets |-> 0]
    /\ policies_sold = [c \in Companies |-> [l \in Lines |-> 0]]
    /\ premium_rates = [c \in Companies |-> [l \in Lines |->
                            IF c = Player THEN base_market_rates[l] ELSE NoRate]]
    /\ advertising_budget = [c \in Companies |-> [l \in Lines |-> 0]]
    /\ claims_history = [c \in Companies |-> <<>>]
    /\ unlocked_states = [s \in States |-> s = "CA"]
    /\ current_demand = [l \in Lines |-> market_segments[l].market_size]
    /\ current_price = [a \in Assets |-> investment_assets[a].current_price]
    /\ net_trades = [a \in Assets |-> 0]
    /\ price_history = [a \in Assets |-> <<investment_assets[a].current_price>>]
    /\ financial_history = <<>>
    /\ alloc_turn = [c \in Companies |-> [l \in Lines |-> -1]]
    /\ traded = [a \in Assets |-> 0]
    /\ consumers = NewConsumers
    /\ economic_cycle_phase = 0
    /\ in_startup = FALSE
    /\ showing_turn_summary = FALSE
    /\ current_screen = "market_overview"
    /\ screens = {}
    /\ active_screen = NoScreen
    /\ screen_history = <<>>
    /\ before = NoTrade
    /\ ops = 0
    /\ last_call = Call("new_game", "", 0, TRUE)

\* whether an observer called by _notify_observers raises
ObserverRaises == BOOLEAN

\* whether the GameState handed to make_decisions carries the attribute
\* market that AICompetitor reads: GameState.__init__ does not set it, and
\* without it the first make_decisions raises AttributeError
MarketAttached == BOOLEAN

\* GameService.end_turn: make_decisions for every competitor, then
\* GameState.update: make_decisions again, _update_policies, _generate_claims,
\* three steps that do nothing, current_turn += 1; then _notify_observers,
\* out of which an observer's exception propagates to the caller.  Without
\* game_state.market the call fails in the first make_decisions.  last_call
\* records in arg whether the catastrophe trigger of the turn fired.
end_turn(d) ==
    /\ current_turn < MaxTurn
    /\ UNCHANGED other_vars
    /\ before' = NoTrade
    /\ \E attached \in MarketAttached :
         IF attached
         THEN
              /\ LET decided == [c \in AINames |-> TurnDecisions(c)]
                     rates == [c \in Companies |->
                                  IF c = Player THEN premium_rates[c] ELSE decided[c].premium_rates]
                     alloc == [l \in Lines |-> AllocateLine(l, rates, d)]
                     new_policies ==
                         [c \in Companies |-> [l \in Lines |->
                             IF c = Player THEN alloc[l].player
                             ELSE IF alloc[l].written THEN alloc[l].competitors[IndexOf(c)]
                             ELSE policies_sold[c][l]]]
                     claims == [c \in Companies |-> LineClaims(LineOrder, new_policies[c], d, current_turn)]
                 IN  /\ premium_rates' = rates
                     /\ advertising_budget' =
                            [c \in Companies |->
                                IF c = Player THEN advertising_budget[c] ELSE decided[c].advertising_budget]
                     /\ policies_sold' = new_policies
                     /\ alloc_turn' = [c \in Companies |-> [l \in Lines |->
                                           IF c = Player \/ alloc[l].written THEN current_turn
                                           ELSE alloc_turn[c][l]]]
                     /\ cash' = [c \in Companies |->
                                    cash[c] + Revenue(rates[c], new_policies[c]) - ClaimsTotal(claims[c])]
                     /\ claims_history' = [c \in Companies |-> claims_history[c] \o claims[c]]
              /\ current_turn' = current_turn + 1
              /\ \E raised \in ObserverRaises :
                    last_call' = Call("end_turn", IF d.cat THEN "catastrophe" ELSE "", 0, ~raised)
              /\ UNCHANGED <<investments, unlocked_states, current_demand, current_price,
                             net_trades, price_history, financial_history, traded, ops>>
         ELSE /\ last_call' = Call("end_turn", "", 0, FALSE)
              /\ UNCHANGED <<current_turn, cash, investments, policies_sold, premium_rates,
                             advertising_budget, claims_history, unlocked_states,
                             current_demand, current_price, net_trades, price_history,
                             financial_history, alloc_turn, traded, ops>>

\* the input box saved on the advertising screen, and the amounts typed
AdLines == {"CA_home"}
AdAmounts == {-100, 50000}

\* AdvertisingScreen.handle_event, the save button: a negative amount and an
\* amount above cash are refused
set_advertising_budget(line_id, amount) ==
    /\ ops < MaxOps
    /\ ops' = ops + 1
    /\ UNCHANGED other_vars
    /\ before' = NoTrade
    /\ IF amount < 0 \/ amount > cash[Player]
       THEN /\ last_call' = Call("set_advertising_budget", line_id, 0, FALSE)
            /\ UNCHANGED advertising_budget
       ELSE /\ advertising_budget' = [advertising_budget EXCEPT ![Player][line_id] = amount]
            /\ last_call' = Call("set_advertising_budget", line_id, 0, TRUE)
    /\ UNCHANGED <<current_turn, cash, investments, policies_sold, premium_rates,
                   claims_history, unlocked_states, current_demand, current_price,
                   net_trades, price_history, financial_history, alloc_turn, traded>>

\* Company.to_dict, which AICompetitor inherits unchanged
Company_to_dict(c) ==
    [name |-> c, cash |-> cash[c],
     investments |-> IF c = Player THEN investments ELSE [a \in Assets |-> 0],
     policies_sold |-> policies_sold[c], claims_history |-> claims_history[c],
     premium_rates |-> premium_rates[c], advertising_budget |-> advertising_budget[c]]

\* GameState.to_dict; the static tables are saved and restored as they are
to_dict ==
    [current_turn |-> current_turn,
     player_company |-> Company_to_dict(Player),
     ai_competitors |-> [i \in 1..Len(CompetitorOrder) |-> Company_to_dict(CompetitorOrder[i])],
     current_demand |-> current_demand,
     current_price |-> current_price,
     unlocked_states |-> unlocked_states,
     financial_history |-> financial_history]

\* the keywords Company.from_dict passes to cls(...), and the parameters
\* AICompetitor.__init__ takes
CompanyKeywords == {"name", "cash", "investments", "policies_sold", "claims_history",
                    "premium_rates", "advertising_budget"}
AICompetitorParameters == {"name", "cash", "risk_profile"}

\* AICompetitor.from_dict is Company.from_dict called with cls = AICompetitor:
\* a keyword that __init__ does not take raises TypeError
FromDictRaises(data) ==
    Len(data.ai_competitors) > 0 /\ ~(CompanyKeywords \subseteq AICompetitorParameters)

\* GameService.save_game then load_game: GameState.from_dict(to_dict()).
\* When from_dict raises, self._game_state is not replaced.
load_game ==
    /\ ops < MaxOps
    /\ ops' = ops + 1
    /\ UNCHANGED other_vars
    /\ before' = NoTrade
    /\ LET data == to_dict IN
       IF FromDictRaises(data)
       THEN /\ last_call' = Call("load_game", "", 0, FALSE)
            /\ UNCHANGED <<current_turn, cash, investments, policies_sold, premium_rates,
                           advertising_budget, claims_history, unlocked_states,
                           current_demand, current_price, financial_history>>
       ELSE /\ last_call' = Call("load_game", "", 0, TRUE)
            /\ current_turn' = data.current_turn
            /\ cash' = [c \in Companies |->
                           IF c = Player THEN data.player_company.cash
                           ELSE data.ai_competitors[IndexOf(c)].cash]
            /\ investments' = data.player_company.investments
            /\ policies_sold' = [c \in Companies |->
                           IF c = Player THEN data.player_company.policies_sold
                           ELSE data.ai_competitors[IndexOf(c)].policies_sold]
            /\ premium_rates' = [c \in Companies |->
                           IF c = Player THEN data.player_company.premium_rates
                           ELSE data.ai_competitors[IndexOf(c)].premium_rates]
            /\ advertising_budget' = [c \in Companies |->
                           IF c = Player THEN data.player_company.advertising_budget
                           ELSE data.ai_competitors[IndexOf(c)].advertising_budget]
            /\ claims_history' = [c \in Companies |->
                           IF c = Player THEN data.player_company.claims_history
                           ELSE data.ai_competitors[IndexOf(c)].claims_history]
            /\ unlocked_states' = data.unlocked_states
            /\ current_demand' = data.current_demand
            /\ current_price' = data.current_price
            /\ financial_history' = data.financial_history
    /\ UNCHANGED <<net_trades, price_history, alloc_turn, traded>>

NextState ==
    \/ \E l \in RateLines, f \in RateFactors : set_premium_rate(l, f)
    \/ load_game
    \/ \E l \in AdLines, x \in AdAmounts : set_advertising_budget(l, x)
    \/ \E d \in Draws : end_turn(d)

SpecState == InitState /\ [][NextState]_vars

IsEndTurnStep == last_call'.op = "end_turn" /\ current_turn' = current_turn + 1

\* C2: after allocation, the policies sold in a segment, summed over all
\* companies, do not exceed the segment's market_size.
C2_SegmentCapacity ==
    \A l \in Lines :
        SumOver([c \in Companies |-> policies_sold[c][l]], Companies) <= market_segments[l].market_size

\* C3: every company's premium revenue and claims of a turn are computed
\* from policy counts allocated in that same update: a count that
\* contributes to the turn was written by the turn's allocation.
C3_AllocatedThisTurn ==
    [][IsEndTurnStep =>
         \A c \in Companies : \A l \in Lines :
             policies_sold'[c][l] > 0 => alloc_turn'[c][l] = current_turn]_vars

\* C4: over one end_turn every AI competitor's premium rate moves by at
\* most 10% of the rate it had before that end_turn.
C4_RateChangeBounded ==
    [][IsEndTurnStep =>
         \A c \in AINames : \A l \in Lines :
             10 * Abs(RateIn(premium_rates'[c], l) - RateIn(premium_rates[c], l))
                 <= RateIn(premium_rates[c], l)]_vars

\* the second end_turn has priced twice and brought the aggressive
\* competitor from 90% of the base rate to the 85% floor
C4_Witness ==
    /\ last_call.op = "end_turn"
    /\ current_turn = 2
    /\ premium_rates["aggressive"]["CA_auto"] = (base_market_rates["CA_auto"] * 850) \div 1000

-----------------------------------------------------------------------------
(* Further properties of game_logic.py, under Spec *)

\* C11: an unlocked flag that is true stays true through every unlock_state,
\* buy_asset, sell_asset and update; a flag changes only in a successful
\* unlock_state, of that state alone, which deducts exactly its entry_cost.
C11_UnlockedMonotonic ==
    [][ /\ \A s \in States : unlocked_states[s] => unlocked_states'[s]
        /\ unlocked_states' # unlocked_states =>
              /\ last_call'.op = "unlock_state" /\ last_call'.ret
              /\ last_call'.arg \in States
              /\ unlocked_states' = [unlocked_states EXCEPT ![last_call'.arg] = TRUE]
              /\ cash'[Player] = cash[Player] - states[last_call'.arg].entry_cost
      ]_vars

\* FL was unlocked and a trade and an update have happened since
C11_Witness ==
    /\ unlocked_states["FL"]
    /\ current_turn > 0
    /\ investments["CORP_BONDS"] > 0

-----------------------------------------------------------------------------
(* Further properties of state/game_state.py, under SpecState *)

\* the claims a step appends to the history of company c
ClaimsAdded(c) == ClaimsTotal(claims_history'[c]) - ClaimsTotal(claims_history[c])

\* C12: every end-of-turn update deducts each company's total advertising
\* budget, as in force for that turn's allocation, from its cash: cash moves
\* by premium revenue less claims less advertising.
C12_AdvertisingDeducted ==
    [][IsEndTurnStep =>
         \A c \in Companies :
             cash'[c] = cash[c] + Revenue(premium_rates'[c], policies_sold'[c])
                        - ClaimsAdded(c) - AdvertisingSpend(c)']_vars

C14_TurnAdvances ==
    [][ /\ last_call'.op = "end_turn" => (last_call'.ret /\ current_turn' = current_turn + 1)
        /\ last_call'.op # "end_turn" => current_turn' = current_turn ]_vars

\* C15: each end-of-turn update appends exactly one report to the financial
\* history, with period equal to the turn being resolved, and leaves every
\* earlier report as it was.
C15_OneReportPerTurn ==
    [][IsEndTurnStep =>
         /\ Len(financial_history') = Len(financial_history) + 1
         /\ SubSeq(financial_history', 1, Len(financial_history)) = financial_history
         /\ financial_history'[Len(financial_history')].period = current_turn]_vars

\* C16: at every end-of-turn update the policies_sold of every company on
\* every line is written by that turn's allocation; no count is left over
\* from an earlier turn.
C16_PoliciesRecomputed ==
    [][IsEndTurnStep =>
         \A c \in Companies : \A l \in Lines : alloc_turn'[c][l] = current_turn]_vars

\* the claim records a step appends to the history of company c
AddedClaims(c) == SubSeq(claims_history'[c], Len(claims_history[c]) + 1, Len(claims_history'[c]))

\* C17: every catastrophe claim a turn appends to a company's claims_history
\* is on a home line, and is appended only in a turn whose catastrophe
\* trigger fired.
C17_CatastropheOnlyHome ==
    [][IsEndTurnStep =>
         \A c \in Companies : \A i \in 1..Len(AddedClaims(c)) :
             AddedClaims(c)[i].type = "catastrophe" =>
                 (IsHome(AddedClaims(c)[i].line) /\ last_call'.arg = "catastrophe")]_vars

\* a competitor's history holds a catastrophe claim next to auto policies in
\* force in the same turn
C17_Witness ==
    /\ last_call.op = "end_turn" /\ last_call.arg = "catastrophe"
    /\ policies_sold["aggressive"]["CA_auto"] > 0
    /\ \E i \in 1..Len(claims_history["aggressive"]) :
          /\ claims_history["aggressive"][i].type = "catastrophe"
          /\ claims_history["aggressive"][i].turn = current_turn - 1

\* C18: GameState.from_dict(to_dict(s)) yields a state, and that state equals
\* s on current_turn, the fields of the player company and of every AI
\* competitor, the market segments, the asset prices, the unlocked-states map
\* and the financial history.
C18_SaveLoadRoundTrip ==
    [][last_call'.op = "load_game" =>
         /\ last_call'.ret
         /\ UNCHANGED <<current_turn, cash, investments, policies_sold, premium_rates,
                        advertising_budget, claims_history, unlocked_states,
                        current_demand, current_price, financial_history>>]_vars

(***************************************************************************)
(* market_dynamics.py: the consumer-choice market.  MarketDynamics keeps   *)
(* its own segments, each with a list of Consumer objects, and its own     *)
(* base rates.  The segment modelled is SegmentLine, with NumConsumers     *)
(* consumers in place of the 3000 that _initialize_market_segments makes.  *)
(* Scores are fixed-point numbers with FP as 1.0; price_sensitivity,       *)
(* loyalty, satisfaction and the random variation are in thousandths.      *)
(***************************************************************************)
SegmentLine == "CA_home"

\* market_dynamics.py _calculate_base_rates: 1200 + 0.01 * 500000 for CA_home
MarketBaseRate == 6200

\* the iteration order of company_rates: the player, then the competitors
MarketOrder == <<Player>> \o CompetitorOrder

\* one outcome of the normal variates of _generate_consumers, by consumer index
PriceSensitivityOf(i) == 700 + 300 * (i % 3)
LoyaltyOf(i) == 200 + 100 * (i % 3)

\* np.log1p(x) for x in fixed point: 2 * atanh(x / (2 + x)), as a series
LnTerms == 12

\* the terms z^(2k+1) / (2k+1) from term k on, pow being z^(2k+1)
RECURSIVE AtanhSum(_, _, _)
AtanhSum(zz, pow, k) ==
    IF k > LnTerms THEN 0
    ELSE pow \div (2 * k + 1) + AtanhSum(zz, (pow * zz) \div FP, k + 1)

Log1p(x) ==
    LET z == (x * FP) \div (2 * FP + x)
    IN  2 * AtanhSum((z * z) \div FP, z, 0)

\* price_factor ** consumer.price_sensitivity for 0 < price_factor <= 1,
\* computed as 1 / (1 / price_factor) ** price_sensitivity
Pow(x, p) == (FP * FP) \div Exp((p * Log1p((FP * FP) \div x - FP)) \div 1000)

\* company_rates of update_market: premium_rates.get(line_id, base_market_rates[line_id])
company_rates == [c \in Companies |->
    IF premium_rates[c][SegmentLine] = NoRate THEN MarketBaseRate
    ELSE premium_rates[c][SegmentLine]]

RECURSIVE MinRate(_, _)
MinRate(rates, k) ==
    IF k = 1 THEN rates[MarketOrder[1]]
    ELSE Min(rates[MarketOrder[k]], MinRate(rates, k - 1))

\* np.random.uniform(0.95, 1.05), one value per company and evaluation
NoVariation == [c \in Companies |-> 1000]
Variations ==
    { NoVariation,
      [c \in Companies |-> IF c = "aggressive" THEN 1050 ELSE 950] }

\* the advertising dictionary passed to update_market, per company for the line
AdvertisingInputs ==
    { [c \in Companies |-> 0],
      [c \in Companies |-> IF c = Player THEN 50000 ELSE 0],
      [c \in Companies |-> IF c = "aggressive" THEN -20000 ELSE 0] }

\* np.log1p(ad_budget / 10000) is a number only above -1; at -1 it is -inf
\* and below it nan, and then the score never passes 'score > best_score'
ScoreDefined(c, advertising) == advertising[c] > -10000

\* the score of one company for one consumer (calculate_consumer_choice, loop body)
Score(i, c, rates, advertising, variation) ==
    LET base_price     == MinRate(rates, Len(MarketOrder))
        price_factor   == IF rates[c] > 0 THEN (base_price * FP) \div rates[c] ELSE FP
        loyalty_factor == IF consumers[i].current_provider = c
                          THEN FP + (LoyaltyOf(i) * consumers[i].satisfaction) \div 100
                          ELSE FP
        ad_factor      == FP + Log1p(advertising[c]) \div 5
        score          == (((Pow(price_factor, PriceSensitivityOf(i)) * loyalty_factor) \div FP)
                              * ad_factor) \div FP
    IN  (score * variation[c]) \div 1000

\* the loop of calculate_consumer_choice over the first k companies:
\* a company replaces the best one only with a strictly greater score
RECURSIVE BestOf(_, _, _, _, _)
BestOf(i, k, rates, advertising, variation) ==
    IF k = 0 THEN [best_company |-> NoProvider, best_score |-> 0]
    ELSE LET prev == BestOf(i, k - 1, rates, advertising, variation)
             company_name == MarketOrder[k]
             score == Score(i, company_name, rates, advertising, variation)
         IN  IF /\ ScoreDefined(company_name, advertising)
                /\ \/ prev.best_company = NoProvider
                   \/ score > prev.best_score
             THEN [best_company |-> company_name, best_score |-> score]
             ELSE prev

calculate_consumer_choice(i, rates, advertising, variation) ==
    BestOf(i, Len(MarketOrder), rates, advertising, variation).best_company

\* the choices of one update_demand, each consumer with its own variation
Choices(rates, advertising, draw) ==
    [i \in 1..NumConsumers |-> calculate_consumer_choice(i, rates, advertising, draw[i])]

\* update_demand: the satisfaction of a consumer who stayed with the provider
Retained_uncapped(satisfaction) == satisfaction + 100

Retained(satisfaction) == Min(1000, satisfaction + 100)

\* the consumers after update_demand has made the choices given
update_demand(chosen) ==
    [i \in 1..NumConsumers |->
        IF chosen[i] = NoProvider THEN consumers[i]
        ELSE [current_provider |-> chosen[i],
              satisfaction |-> IF consumers[i].current_provider = chosen[i]
                               THEN Retained(consumers[i].satisfaction)
                               ELSE 500]]

\* policies_by_company[c], which update_demand returns: one for every
\* consumer whose choice is c
PoliciesBy_switched(chosen, c) ==
    Cardinality({i \in 1..NumConsumers :
        chosen[i] = c /\ consumers[i].current_provider # c})

PoliciesBy(chosen, c) == Cardinality({i \in 1..NumConsumers : chosen[i] = c})

\* the consumers after five updates at equal rates in which every score
\* drew the same variation: all with the first company, satisfaction 0.9
SeasonedConsumers ==
    [i \in 1..NumConsumers |-> [current_provider |-> Player, satisfaction |-> 900]]

\* a new market, or one whose consumers have been with the player for five updates
InitMarket ==
    /\ current_turn = 0
    /\ cash = [c \in Companies |-> StartingCash]
    /\ investments = [a \in Assets |-> 0]
    /\ premium_rates = [c \in Companies |-> [l \in Lines |-> NoRate]]
    /\ advertising_budget = [c \in Companies |-> [l \in Lines |-> 0]]
    /\ claims_history = [c \in Companies |-> <<>>]
    /\ unlocked_states = [s \in States |-> s = "CA"]
    /\ current_price = [a \in Assets |-> investment_assets[a].current_price]
    /\ net_trades = [a \in Assets |-> 0]
    /\ price_history = [a \in Assets |-> <<investment_assets[a].current_price>>]
    /\ financial_history = <<>>
    /\ alloc_turn = [c \in Companies |-> [l \in Lines |-> -1]]
    /\ traded = [a \in Assets |-> 0]
    /\ economic_cycle_phase = 0
    /\ in_startup = FALSE
    /\ showing_turn_summary = FALSE
    /\ current_screen = "market_overview"
    /\ screens = {}
    /\ active_screen = NoScreen
    /\ screen_history = <<>>
    /\ before = NoTrade
    /\ ops = 0
    /\ \/ /\ consumers = NewConsumers
          /\ policies_sold = [c \in Companies |-> [l \in Lines |-> 0]]
          /\ current_demand = [l \in Lines |-> market_segments[l].initial_demand]
          /\ last_call = Call("new_game", "", 0, TRUE)
       \/ /\ consumers = SeasonedConsumers
          /\ policies_sold = [c \in Companies |-> [l \in Lines |->
                                 IF c = Player /\ l = SegmentLine THEN NumConsumers ELSE 0]]
          /\ current_demand = [l \in Lines |->
                                 IF l = SegmentLine THEN NumConsumers
                                 ELSE market_segments[l].initial_demand]
          /\ last_call = Call("update_market", "", 0, TRUE)

update_market(advertising, draw) ==
    /\ ops < MaxOps
    /\ ops' = ops + 1
    /\ before' = NoTrade
    /\ \E chosen \in {Choices(company_rates, advertising, draw)} :
         \E new_policies \in {[c \in Companies |-> PoliciesBy(chosen, c)]} :
           /\ consumers' = update_demand(chosen)
           /\ policies_sold' = [c \in Companies |->
                  [policies_sold[c] EXCEPT ![SegmentLine] = new_policies[c]]]
           /\ current_demand' = [current_demand EXCEPT ![SegmentLine] =
                  SumOver(new_policies, Companies)]
    /\ last_call' = Call("update_market",
                         IF draw = [i \in 1..NumConsumers |-> NoVariation] THEN "" ELSE "varied",
                         SumOver(advertising, Companies), TRUE)
    /\ UNCHANGED <<current_turn, cash, investments, premium_rates, advertising_budget,
                   claims_history, unlocked_states, current_price, net_trades,
                   price_history, financial_history, alloc_turn, traded,
                   economic_cycle_phase, ui_vars, screen_vars>>

NextMarket ==
    \/ \E l \in RateLines, f \in RateFactors : set_premium_rate(l, f)
    \/ \E advertising \in AdvertisingInputs, draw \in [1..NumConsumers -> Variations] :
           update_market(advertising, draw)

SpecMarket == InitMarket /\ [][NextMarket]_vars

(***************************************************************************)
(* Properties of market_dynamics.py, under SpecMarket                      *)
(***************************************************************************)

\* every company presents the same price, and no company has an advertising budget
IdenticalInputs ==
    /\ last_call'.op = "update_market"
    /\ last_call'.shares = 0
    /\ \A c \in Companies : company_rates[c] = company_rates[Player]

\* C19: when the companies present identical price, loyalty and advertising
\* inputs to a consumer, calculate_consumer_choice selects the first company
\* in iteration order on every evaluation, so that update_demand splits the
\* consumers of a segment the same way each time it runs from the same state.
C19_TieChoiceRepeats ==
    [][IdenticalInputs =>
          \A i \in 1..NumConsumers :
              consumers[i].current_provider = NoProvider
                  => consumers'[i].current_provider = MarketOrder[1]]_vars

(***************************************************************************)
(* Properties of AICompetitor._update_pricing, under SpecState             *)
(***************************************************************************)

\* the competitor has a rate on the line and is below its target share
PricedBelowTarget(c, l) == premium_rates[c][l] # NoRate /\ BelowTarget(c, l)

C21_UpdateResetsTrades ==
    [][last_call'.op = "update_price" =>
          LET a == last_call'.arg
          IN  /\ net_trades'[a] = 0
              /\ price_history'[a] = Append(price_history[a], current_price'[a])]_vars

\* an update has just consumed a net_trades that record_trade had made non-zero
C21_Witness ==
    /\ last_call.op = "update_price"
    /\ last_call.shares # 0
    /\ net_trades[last_call.arg] = 0
    /\ Len(price_history[last_call.arg]) > 1

(***************************************************************************)
(* Further properties of game_logic.py's update, under Spec                *)
(***************************************************************************)

\* C22: in each end-of-turn update every asset's price is updated exactly
\* once, whether or not shares of it are held: after n turns every asset's
\* price_history has exactly n entries beyond its initial price.
C22_OnePriceUpdatePerTurn ==
    \A a \in Assets : Len(price_history[a]) = 1 + current_turn

(***************************************************************************)
(* Properties of GameService.end_turn's AI decisions, under SpecState      *)
(***************************************************************************)

\* C23: in one end_turn each AI competitor's decision procedure is executed
\* exactly once, before that turn's demand allocation: the rates and
\* advertising budgets a competitor leaves the turn with are those of one
\* execution of make_decisions on the rates it entered the turn with.
C23_DecisionsOncePerTurn ==
    [][IsEndTurnStep =>
          \A c \in AINames :
              /\ premium_rates'[c] = MakeDecisions(c, premium_rates[c]).premium_rates
              /\ advertising_budget'[c] = MakeDecisions(c, premium_rates[c]).advertising_budget]_vars

(***************************************************************************)
(* services/market_service.py: MarketService.update_market_demand, which   *)
(* works on the GameState of state/game_state.py.  Angles and factors are  *)
(* fixed-point numbers with FP as 1.0; seasonal multipliers in thousandths.*)
(***************************************************************************)
Pi == 31416
economic_cycle_period == 20

\* the terms of the sine series from term k on, term being x^(2k+1)/(2k+1)!
SinTerms == 6

RECURSIVE SinSum(_, _, _)
SinSum(xx, term, k) ==
    IF k > SinTerms THEN 0
    ELSE term - SinSum(xx, (((term * xx) \div FP) \div ((2 * k + 2) * (2 * k + 3))), k + 1)

\* math.sin for 0 <= x <= 2 * pi, reduced to the first quadrant
RECURSIVE Sin(_)
Sin(x) ==
    IF x > Pi THEN 0 - Sin(x - Pi)
    ELSE IF 2 * x > Pi THEN Sin(Pi - x)
    ELSE SinSum((x * x) \div FP, x, 0)

\* _seasonal_effects, by line type and quarter
seasonal_effects(l, quarter) ==
    IF IsHome(l) THEN <<1200, 900, 800, 1100>>[quarter + 1]
    ELSE <<1100, 900, 1000, 1200>>[quarter + 1]

\* states[state_id]["growth_rate"] of GameService._initialize_game_state
growth_rate(s) == IF s = "CA" THEN 100 ELSE 200

\* the phase after update_market_demand has advanced it
NextPhase ==
    LET advanced == economic_cycle_phase + (2 * Pi) \div economic_cycle_period
    IN  IF advanced > 2 * Pi THEN advanced - 2 * Pi ELSE advanced

\* segment.current_demand as update_market_demand assigns it
ServiceDemand(l, phase) ==
    LET economic_factor == FP + (15 * Sin(phase)) \div 100
        seasonal_factor == seasonal_effects(l, current_turn % 4)
        growth_factor == Exp((current_turn * Log1p(growth_rate(StateOf(l)))) \div 4)
        base_size == (market_segments[l].market_size * growth_factor) \div FP
    IN  (((base_size * economic_factor) \div FP) * seasonal_factor) \div 1000

update_market_demand ==
    /\ ops < MaxOps
    /\ ops' = ops + 1
    /\ before' = NoTrade
    /\ economic_cycle_phase' = NextPhase
    /\ current_demand' = [l \in Lines |-> ServiceDemand(l, NextPhase)]
    /\ last_call' = Call("update_market_demand", "", 0, TRUE)
    /\ UNCHANGED <<current_turn, cash, investments, policies_sold, premium_rates,
                   advertising_budget, claims_history, unlocked_states, current_price,
                   net_trades, price_history, financial_history, alloc_turn, traded,
                   consumers, ui_vars, screen_vars>>

NextDemand ==
    \/ NextState
    \/ update_market_demand

SpecDemand == InitState /\ [][NextDemand]_vars

\* C24: after every market-demand update, each segment's current_demand
\* satisfies 0 <= current_demand <= market_size, for every turn number and
\* every value of the economic-cycle, seasonal and growth factors.
C24_DemandWithinMarketSize ==
    [][last_call'.op = "update_market_demand" =>
          \A l \in Lines :
              /\ 0 <= current_demand'[l]
              /\ current_demand'[l] <= market_segments[l].market_size]_vars

(***************************************************************************)
(* Further properties of AICompetitor, under SpecState                     *)
(***************************************************************************)

\* C25: after any sequence of AI pricing steps that starts from the rate
\* initialised to the base rate, a competitor's premium rate on every line
\* is at least 85% of that line's base rate, whatever rates the player sets.
C25_RateFloor ==
    \A c \in AINames, l \in Lines :
        premium_rates[c][l] # NoRate
            => premium_rates[c][l] * 1000 >= base_market_rates[l] * 850

\* the player has gone below 85% of the base rate, and a competitor has
\* followed down to the floor and no further
C25_Witness ==
    /\ last_call.op = "end_turn"
    /\ premium_rates[Player]["CA_home"] * 1000 < base_market_rates["CA_home"] * 850
    /\ premium_rates["aggressive"]["CA_home"] * 1000 = base_market_rates["CA_home"] * 850

\* C26: after an AI advertising step, the competitor's advertising budget on
\* every line is non-negative and at most 25% of the cash it has at that
\* step, for every cash value including zero and negative cash.
C26_AdvertisingWithinCash ==
    [][IsEndTurnStep =>
          \A c \in AINames, l \in Lines :
              /\ advertising_budget'[c][l] >= 0
              /\ advertising_budget'[c][l] * 4 <= cash[c]]_vars

(***************************************************************************)
(* Further properties of market_dynamics.py, under SpecMarket              *)
(***************************************************************************)

\* C27: a consumer who is assigned the provider they already had gets
\* satisfaction raised by 0.1 and capped at 1.0, a consumer assigned a
\* different provider (a first provider included) gets satisfaction set to
\* 0.5, and every consumer's satisfaction stays within [0, 1].
C27_SatisfactionRule ==
    [][last_call'.op = "update_market" =>
          \A i \in 1..NumConsumers :
              /\ consumers'[i].satisfaction =
                     IF consumers'[i].current_provider = consumers[i].current_provider
                     THEN (IF consumers[i].satisfaction + 100 > 1000 THEN 1000
                           ELSE consumers[i].satisfaction + 100)
                     ELSE 500
              /\ consumers'[i].satisfaction >= 0
              /\ consumers'[i].satisfaction <= 1000]_vars

\* an update has just left a retained consumer at the cap
C27_Witness ==
    /\ last_call.op = "update_market"
    /\ \E i \in 1..NumConsumers :
          /\ consumers[i].satisfaction = 1000
          /\ consumers[i].current_provider = Player

max_history == 10

\* the names given to add_screen, activate_screen and remove_screen
ScreenNames == {"main_menu", "premium", "investment"}

\* what ScreenManager never touches
ScreenFrame ==
    UNCHANGED <<current_turn, cash, investments, policies_sold, premium_rates,
                advertising_budget, claims_history, unlocked_states, current_demand,
                current_price, net_trades, price_history, financial_history, alloc_turn,
                traded, before, consumers, economic_cycle_phase, ui_vars>>

\* deactivate_screen: the active screen afterwards
Deactivated(active) ==
    IF active # NoScreen /\ active \in screens THEN NoScreen ELSE active

\* activate_screen for a registered name: the history afterwards.  The test
\* 'self.active_screen and self.active_screen != name' is made after
\* self.active_screen has been assigned name.
HistoryAfterActivate(history, name) ==
    LET active == name
    IN  IF active # NoScreen /\ active # name
        THEN LET appended == Append(history, active)
             IN  IF Len(appended) > max_history THEN Tail(appended) ELSE appended
        ELSE history

add_screen(name) ==
    /\ screens' = screens \cup {name}
    /\ last_call' = Call("add_screen", name, 0, TRUE)
    /\ UNCHANGED <<active_screen, screen_history, ops>>
    /\ ScreenFrame

remove_screen(name) ==
    /\ ops < MaxOps
    /\ ops' = ops + 1
    /\ IF name \in screens
       THEN /\ active_screen' = IF active_screen = name THEN Deactivated(active_screen)
                                ELSE active_screen
            /\ screens' = screens \ {name}
       ELSE UNCHANGED <<active_screen, screens>>
    /\ last_call' = Call("remove_screen", name, 0, TRUE)
    /\ UNCHANGED screen_history
    /\ ScreenFrame

activate_screen(name) ==
    /\ ops < MaxOps
    /\ ops' = ops + 1
    /\ IF name \notin screens
       THEN /\ last_call' = Call("activate_screen", name, 0, FALSE)
            /\ UNCHANGED <<active_screen, screen_history>>
       ELSE /\ active_screen' = name
            /\ screen_history' = HistoryAfterActivate(screen_history, name)
            /\ last_call' = Call("activate_screen", name, 0, TRUE)
    /\ UNCHANGED screens
    /\ ScreenFrame

deactivate_screen ==
    /\ ops < MaxOps
    /\ ops' = ops + 1
    /\ active_screen' = Deactivated(active_screen)
    /\ last_call' = Call("deactivate_screen", "", 0, TRUE)
    /\ UNCHANGED <<screens, screen_history>>
    /\ ScreenFrame

go_back ==
    /\ ops < MaxOps
    /\ ops' = ops + 1
    /\ IF screen_history = <<>>
       THEN /\ last_call' = Call("go_back", "", 0, FALSE)
            /\ UNCHANGED <<active_screen, screen_history>>
       ELSE LET previous_screen == screen_history[Len(screen_history)]
                popped == SubSeq(screen_history, 1, Len(screen_history) - 1)
            IN  IF previous_screen \in screens
                THEN /\ active_screen' = previous_screen
                     /\ screen_history' = HistoryAfterActivate(popped, previous_screen)
                     /\ last_call' = Call("go_back", previous_screen, 0, TRUE)
                ELSE /\ screen_history' = popped
                     /\ last_call' = Call("go_back", previous_screen, 0, FALSE)
                     /\ UNCHANGED active_screen
    /\ UNCHANGED screens
    /\ ScreenFrame

NextScreen ==
    \/ \E name \in ScreenNames : add_screen(name)
    \/ \E name \in ScreenNames : remove_screen(name)
    \/ \E name \in ScreenNames : activate_screen(name)
    \/ deactivate_screen
    \/ go_back

SpecScreen == Init /\ [][NextScreen]_vars

\* C29: after screen A is active and a different registered screen B is
\* activated, activate_screen has recorded A in screen_history (which never
\* holds more than max_history entries), so that go_back returns True and
\* makes A the active screen again.
C29_HistoryRecordsPrevious ==
    /\ [][(/\ last_call'.op = "activate_screen"
           /\ last_call'.ret
           /\ active_screen # NoScreen
           /\ active_screen' # active_screen)
              => /\ screen_history' # <<>>
                 /\ screen_history'[Len(screen_history')] = active_screen]_vars
    /\ [](Len(screen_history) <= max_history)

(***************************************************************************)
(* ui/game_ui.py: GameUI.handle_event for mouse clicks, on the GameState   *)
(* of game_logic.py.  A click is named by what lies under it: the End Turn *)
(* button or a menu button in the sidebar, a widget of the current screen, *)
(* or the popup's Continue button, which is drawn over the main area and   *)
(* so over a widget of the screen underneath.                              *)
(***************************************************************************)
MenuScreens == {"market_overview", "set_premiums", "advertising", "investments", "reports"}
ClickTargets == {"end_turn_button", "continue_button", "widget"} \cup MenuScreens

\* what the widgets clicked carry: the share count typed on the investment
\* screen, the slider position (thousandths of the base rate) and the budget typed
WidgetAsset == "CORP_BONDS"
WidgetShares == 8000
WidgetLine == "CA_home"
WidgetSlider == 800
WidgetBudget == 50000

\* handle_event: 'if self.showing_turn_summary: ... return'
PopupSwallows_never(showing) == FALSE

PopupSwallows(showing) == showing

\* the GameState fields and ScreenManager fields a click leaves alone unless
\* it ends the turn or reaches a screen
UIFrame ==
    UNCHANGED <<current_turn, policies_sold, claims_history, unlocked_states,
                current_demand, current_price, net_trades, price_history,
                financial_history, alloc_turn, before, consumers, economic_cycle_phase,
                in_startup, screen_vars>>

\* the current screen's handle_event for a click on its widget
ScreenHandles(target) ==
    /\ showing_turn_summary' = showing_turn_summary
    /\ IF current_screen = "investments"
       THEN LET cost == current_price[WidgetAsset] * WidgetShares
            IN  /\ IF cost <= cash[Player]
                   THEN /\ cash' = [cash EXCEPT ![Player] = @ - cost]
                        /\ investments' = [investments EXCEPT ![WidgetAsset] = @ + WidgetShares]
                        /\ traded' = [traded EXCEPT ![WidgetAsset] = @ + WidgetShares]
                   ELSE UNCHANGED <<cash, investments, traded>>
                /\ UNCHANGED <<premium_rates, advertising_budget, current_screen>>
       ELSE IF current_screen = "set_premiums"
       THEN /\ premium_rates' = [premium_rates EXCEPT ![Player][WidgetLine] =
                                    (base_market_rates[WidgetLine] * WidgetSlider) \div 1000]
            /\ UNCHANGED <<cash, investments, traded, advertising_budget, current_screen>>
       ELSE IF current_screen = "advertising"
       THEN /\ advertising_budget' =
                   IF WidgetBudget < 0 \/ WidgetBudget > cash[Player] THEN advertising_budget
                   ELSE [advertising_budget EXCEPT ![Player][WidgetLine] = WidgetBudget]
            /\ current_screen' = "market_overview"
            /\ UNCHANGED <<cash, investments, traded, premium_rates>>
       ELSE UNCHANGED <<cash, investments, traded, premium_rates, advertising_budget,
                        current_screen>>
    /\ last_call' = Call("handle_event", target, 0, TRUE)
    /\ ops' = ops + 1
    /\ UIFrame

\* GameUI.handle_event for a MOUSEBUTTONDOWN event; d is what the random
\* draws of GameState.update give if the click ends the turn
handle_event(target, d) ==
    /\ ops < MaxOps
    /\ IF in_startup
       THEN /\ last_call' = Call("handle_event", target, 0, FALSE)
            /\ ops' = ops + 1
            /\ UNCHANGED <<cash, investments, traded, premium_rates, advertising_budget,
                           current_screen, showing_turn_summary>>
            /\ UIFrame
       ELSE IF PopupSwallows(showing_turn_summary)
       THEN /\ showing_turn_summary' = (target # "continue_button")
            /\ last_call' = Call("handle_event", target, 0, FALSE)
            /\ ops' = ops + 1
            /\ UNCHANGED <<cash, investments, traded, premium_rates, advertising_budget,
                           current_screen>>
            /\ UIFrame
       ELSE IF target = "end_turn_button"
       THEN /\ GameState_update(d)
            /\ showing_turn_summary' = TRUE
            /\ UNCHANGED <<consumers, economic_cycle_phase, in_startup, current_screen,
                           screen_vars>>
       ELSE IF target \in MenuScreens
       THEN /\ current_screen' = target
            /\ last_call' = Call("handle_event", target, 0, TRUE)
            /\ ops' = ops + 1
            /\ UNCHANGED <<cash, investments, traded, premium_rates, advertising_budget,
                           showing_turn_summary>>
            /\ UIFrame
       ELSE ScreenHandles(target)

NextUI == \E target \in ClickTargets, d \in Draws : handle_event(target, d)

SpecUI == Init /\ [][NextUI]_vars

\* C30: while the turn-summary popup is showing, no UI event starts another
\* end-of-turn update, switches screen or reaches a screen's trade or budget
\* handlers: a step taken while it shows changes at most the popup flag.
C30_PopupBlocksEvents ==
    [][showing_turn_summary =>
          UNCHANGED <<current_turn, cash, investments, policies_sold, premium_rates,
                      advertising_budget, claims_history, current_demand, current_price,
                      price_history, financial_history, current_screen>>]_vars

\* a click on the End Turn button has just been swallowed by the popup
C30_Witness ==
    /\ showing_turn_summary
    /\ last_call = Call("handle_event", "end_turn_button", 0, FALSE)
    /\ current_turn = 1

====
